---- MODULE Spec2Model ----
(***************************************************************************)
(* A state-machine model of src/app.py: the storefront backend (product    *)
(* query, orders, uploads, session and admin gate) over an embedded SQL    *)
(* database.  Text is modelled as sequences of one-character strings so    *)
(* that parsing, LIKE matching and JSON (de)serialisation are computed.    *)
(***************************************************************************)
EXTENDS Integers, Sequences, FiniteSets, TLC

(***************************************************************************)
(* Bounds of the model.                                                    *)
(***************************************************************************)
NumProducts == 3     \* rows of the pre-populated products table
MaxOrderId == 2      \* orders inserted over a run (the rowid counter's cap)
MaxNow == 36         \* last hour the database clock reaches
MaxUploads == 1      \* files the upload directory may hold
MaxPending == 2      \* admin order updates in flight at once

(***************************************************************************)
(* Program constants.                                                      *)
(***************************************************************************)
DefaultPage == 1     \* request.args.get('page', 1)
DefaultLimit == 20   \* request.args.get('limit', 20)
ExpiryHours == 24    \* datetime('now', '-24 hours')

\* An optional value: <<>> when the key, column or session entry is missing,
\* <<x>> when it holds x.
None == <<>>

Some(x) == <<x>>

(***************************************************************************)
(* Characters.                                                             *)
(***************************************************************************)
Digits == <<"0", "1", "2", "3", "4", "5", "6", "7", "8", "9">>

IsDigit(c) == \E i \in 1..10 : Digits[i] = c

DigitVal(c) == (CHOOSE i \in 1..10 : Digits[i] = c) - 1

IsSpace(c) == c = " "

\* ASCII code of the characters the model uses (SQLite BINARY collation).
Ord(c) ==
    CASE c = " " -> 32
      [] c = "%" -> 37
      [] c = "D" -> 68
      [] c = "O" -> 79
      [] c = "_" -> 95
      [] c = "a" -> 97
      [] c = "d" -> 100
      [] c = "o" -> 111
      [] c = "x" -> 120
      [] c = "z" -> 122
      [] OTHER -> 0

\* ASCII case folding, as SQLite's LIKE applies it.
Lower(c) ==
    CASE c = "D" -> "d"
      [] c = "O" -> "o"
      [] c = "P" -> "p"
      [] c = "N" -> "n"
      [] c = "G" -> "g"
      [] OTHER -> c

RECURSIVE LStrip(_)
LStrip(s) == IF s # <<>> /\ IsSpace(Head(s)) THEN LStrip(Tail(s)) ELSE s

RECURSIVE RStrip(_)
RStrip(s) ==
    IF s # <<>> /\ IsSpace(s[Len(s)]) THEN RStrip(SubSeq(s, 1, Len(s) - 1)) ELSE s

\* str.strip()
Strip(s) == RStrip(LStrip(s))

(***************************************************************************)
(* int(text): optional surrounding whitespace, optional sign, digits.      *)
(***************************************************************************)
RECURSIVE AllDigits(_)
AllDigits(s) == s = <<>> \/ (IsDigit(Head(s)) /\ AllDigits(Tail(s)))

RECURSIVE DigitsValue(_, _)
DigitsValue(s, acc) ==
    IF s = <<>> THEN acc ELSE DigitsValue(Tail(s), acc * 10 + DigitVal(Head(s)))

ParseInt(raw) ==
    LET s == Strip(raw)
        signed == s # <<>> /\ Head(s) \in {"+", "-"}
        body == IF signed THEN Tail(s) ELSE s
        ok == body # <<>> /\ AllDigits(body)
        mag == IF ok THEN DigitsValue(body, 0) ELSE 0
    IN [ok |-> ok, val |-> IF signed /\ Head(s) = "-" THEN 0 - mag ELSE mag]

\* int(request.args.get(key, default)): the default is already an int.
IntArg(raw, default) ==
    IF raw = None THEN [ok |-> TRUE, val |-> default] ELSE ParseInt(raw[1])

(***************************************************************************)
(* JSON values and their text form (json.dumps / json.loads).              *)
(* A value is [t, v]: null, a number, a string (v its characters), an      *)
(* array (v the elements) or an object (v the <<key, value>> pairs in      *)
(* insertion order).                                                       *)
(***************************************************************************)
JNull == [t |-> "null", v |-> <<>>]

JNum(n) == [t |-> "num", v |-> n]

JStr(s) == [t |-> "str", v |-> s]

JArr(xs) == [t |-> "arr", v |-> xs]

JObj(ps) == [t |-> "obj", v |-> ps]

RECURSIVE NatChars(_)
NatChars(n) ==
    IF n < 10 THEN <<Digits[n + 1]>> ELSE NatChars(n \div 10) \o <<Digits[(n % 10) + 1]>>

NumChars(n) == IF n < 0 THEN <<"-">> \o NatChars(0 - n) ELSE NatChars(n)

RECURSIVE EscapeStr(_)
EscapeStr(s) ==
    IF s = <<>> THEN <<>>
    ELSE (IF Head(s) \in {"\"", "\\"} THEN <<"\\", Head(s)>> ELSE <<Head(s)>>)
         \o EscapeStr(Tail(s))

QuoteStr(s) == <<"\"">> \o EscapeStr(s) \o <<"\"">>

RECURSIVE json_dumps(_), DumpItems(_), DumpPairs(_)
json_dumps(x) ==
    CASE x.t = "null" -> <<"n", "u", "l", "l">>
      [] x.t = "num" -> NumChars(x.v)
      [] x.t = "str" -> QuoteStr(x.v)
      [] x.t = "arr" -> <<"[">> \o DumpItems(x.v) \o <<"]">>
      [] x.t = "obj" -> <<"{">> \o DumpPairs(x.v) \o <<"}">>

DumpItems(xs) ==
    IF xs = <<>> THEN <<>>
    ELSE json_dumps(Head(xs))
         \o (IF Tail(xs) = <<>> THEN <<>> ELSE <<",", " ">> \o DumpItems(Tail(xs)))

DumpPairs(ps) ==
    IF ps = <<>> THEN <<>>
    ELSE QuoteStr(Head(ps)[1]) \o <<":", " ">> \o json_dumps(Head(ps)[2])
         \o (IF Tail(ps) = <<>> THEN <<>> ELSE <<",", " ">> \o DumpPairs(Tail(ps)))

ParseFail == [ok |-> FALSE, val |-> JNull, rest |-> <<>>]

ParseOk(val, rest) == [ok |-> TRUE, val |-> val, rest |-> rest]

HasPrefix(s, p) == Len(s) >= Len(p) /\ SubSeq(s, 1, Len(p)) = p

Drop(s, n) == SubSeq(s, n + 1, Len(s))

RECURSIVE TakeDigits(_)
TakeDigits(s) ==
    IF s # <<>> /\ IsDigit(Head(s)) THEN <<Head(s)>> \o TakeDigits(Tail(s)) ELSE <<>>

ParseNum(s) ==
    LET neg == s # <<>> /\ Head(s) = "-"
        body == IF neg THEN Tail(s) ELSE s
        ds == TakeDigits(body)
        mag == DigitsValue(ds, 0)
    IN IF ds = <<>> THEN ParseFail
       ELSE ParseOk(JNum(IF neg THEN 0 - mag ELSE mag), Drop(body, Len(ds)))

\* The text after an opening quote, up to and past the closing quote.
RECURSIVE ParseStrBody(_, _)
ParseStrBody(s, acc) ==
    IF s = <<>> THEN ParseFail
    ELSE IF Head(s) = "\"" THEN ParseOk(JStr(acc), Tail(s))
    ELSE IF Head(s) = "\\"
         THEN IF Len(s) >= 2 /\ s[2] \in {"\"", "\\"}
              THEN ParseStrBody(Drop(s, 2), Append(acc, s[2]))
              ELSE ParseFail
    ELSE ParseStrBody(Tail(s), Append(acc, Head(s)))

RECURSIVE ParseValue(_), ParseItems(_, _), ParsePairs(_, _)
ParseValue(s0) ==
    LET s == LStrip(s0)
    IN IF s = <<>> THEN ParseFail
       ELSE IF HasPrefix(s, <<"n", "u", "l", "l">>) THEN ParseOk(JNull, Drop(s, 4))
       ELSE IF Head(s) = "\"" THEN ParseStrBody(Tail(s), <<>>)
       ELSE IF Head(s) = "["
            THEN IF LStrip(Tail(s)) # <<>> /\ Head(LStrip(Tail(s))) = "]"
                 THEN ParseOk(JArr(<<>>), Tail(LStrip(Tail(s))))
                 ELSE ParseItems(Tail(s), <<>>)
       ELSE IF Head(s) = "{"
            THEN IF LStrip(Tail(s)) # <<>> /\ Head(LStrip(Tail(s))) = "}"
                 THEN ParseOk(JObj(<<>>), Tail(LStrip(Tail(s))))
                 ELSE ParsePairs(Tail(s), <<>>)
       ELSE ParseNum(s)

\* One element, then "," and more elements or the closing "]".
ParseItems(s, acc) ==
    LET r == ParseValue(s)
        t == LStrip(r.rest)
    IN IF ~r.ok \/ t = <<>> THEN ParseFail
       ELSE IF Head(t) = "]" THEN ParseOk(JArr(Append(acc, r.val)), Tail(t))
       ELSE IF Head(t) = "," THEN ParseItems(Tail(t), Append(acc, r.val))
       ELSE ParseFail

\* One "key": value pair, then "," and more pairs or the closing "}".
ParsePairs(s0, acc) ==
    LET s == LStrip(s0)
        k == IF s # <<>> /\ Head(s) = "\"" THEN ParseStrBody(Tail(s), <<>>) ELSE ParseFail
        c == LStrip(k.rest)
        r == IF k.ok /\ c # <<>> /\ Head(c) = ":" THEN ParseValue(Tail(c)) ELSE ParseFail
        t == LStrip(r.rest)
        acc2 == Append(acc, <<k.val.v, r.val>>)
    IN IF ~r.ok \/ t = <<>> THEN ParseFail
       ELSE IF Head(t) = "}" THEN ParseOk(JObj(acc2), Tail(t))
       ELSE IF Head(t) = "," THEN ParsePairs(Tail(t), acc2)
       ELSE ParseFail

\* json.loads(text): ok is FALSE where Python raises JSONDecodeError.
json_loads(text) ==
    LET r == ParseValue(text)
    IN IF r.ok /\ LStrip(r.rest) = <<>> THEN r ELSE ParseFail

(***************************************************************************)
(* State.                                                                  *)
(***************************************************************************)
VARIABLES
    products,        \* products table: rowid -> row
    orders,          \* orders table: set of rows
    nextId,          \* next rowid of the orders table
    orderRefUnique,  \* whether the orders table in the database file enforces unique order_ref
    now,             \* the database clock, in hours
    uploads,         \* files in UPLOAD_FOLDER
    session,         \* cookie -> session contents
    pending,         \* admin order updates received and not yet executed
    resp             \* the last response sent

vars == <<products, orders, nextId, orderRefUnique, now, uploads, session, pending, resp>>

Sessions == {"s1", "s2"}

\* A response: the handler, the session that called, the HTTP status and the
\* JSON body, with a record of what the handler was given and what it read
\* (call and body are optional values).
\* call and body are filed under the handler's name, so that responses of
\* different handlers are comparable values.
Response(op, s, code, call, body) ==
    [op |-> op, sid |-> s, code |-> code,
     call |-> [h \in {op} |-> call], body |-> [h \in {op} |-> body]]

Call(r) == r.call[r.op][1]

Body(r) == r.body[r.op][1]

Unauthorized(op, s) == Response(op, s, 401, None, None)

(***************************************************************************)
(* Session and admin gate.                                                 *)
(***************************************************************************)
\* 'user' in session
LoggedIn(s) == session[s].user # None

\* is_admin(): session.get('is_admin') == True
is_adminOrUser(s) == session[s].is_admin = TRUE \/ session[s].user # None

is_admin(s) == session[s].is_admin = TRUE

AdminPassword == <<"a", "d", "m", "i", "n", "1", "2", "3">>

PasswordSamples == {AdminPassword, <<"a", "d", "m", "i", "n">>}

\* admin_login(): the flag is set on a matching password, nothing else changes.
admin_login(s, password) ==
    /\ IF password = AdminPassword
       THEN /\ session' = [session EXCEPT ![s].is_admin = TRUE]
            /\ resp' = Response("admin_login", s, 200, None, None)
       ELSE /\ session' = session
            /\ resp' = Response("admin_login", s, 401, None, None)
    /\ UNCHANGED <<products, orders, nextId, orderRefUnique, now, uploads, pending>>

(***************************************************************************)
(* Products: the table, the query (get_products_api) and the admin edit.   *)
(***************************************************************************)
MetaA == JObj(<< << <<"p">>, JNum(12) >> >>)

MetaB ==
    JObj(<< << <<"n">>, JStr(<<"D", "\"", "\\">>) >>,
            << <<"t">>, JArr(<<JNull, JNum(0 - 3)>>) >> >>)

DetailA == JObj(<< << <<"d">>, JArr(<<>>) >> >>)

InitNames == << <<"D", "o">>, <<"d", "o">>, <<"a", "x">> >>

\* The pre-populated table: the code has no insert into products.
InitProduct(i) ==
    [id |-> i,
     name |-> InitNames[((i - 1) % Len(InitNames)) + 1],
     price |-> (2 * i) % 3,
     url |-> <<"u">>,
     options_count |-> i,
     meta_json |-> json_dumps(IF i % 2 = 0 THEN MetaB ELSE MetaA),
     detail_json |-> json_dumps(DetailA)]

ProductIds == 1..NumProducts

\* Request bodies of /api/admin/product/update (complete: every key present).
ProductEdits ==
    {[complete |-> TRUE, name |-> <<"d", "o">>, price |-> 0, url |-> <<"v">>,
      meta_json |-> MetaB, detail_json |-> DetailA],
     [complete |-> TRUE, name |-> <<"a", "x">>, price |-> 2, url |-> <<"u">>,
      meta_json |-> MetaA, detail_json |-> DetailA],
     [complete |-> FALSE, name |-> <<"D", "o">>, price |-> 1, url |-> <<"u">>,
      meta_json |-> MetaA, detail_json |-> DetailA]}

\* SQLite LIKE: % any run, _ any one character, ASCII case-insensitive.
RECURSIVE Like(_, _)
Like(pat, str) ==
    IF pat = <<>> THEN str = <<>>
    ELSE IF Head(pat) = "%"
         THEN Like(Tail(pat), str) \/ (str # <<>> /\ Like(pat, Tail(str)))
    ELSE IF Head(pat) = "_" THEN str # <<>> /\ Like(Tail(pat), Tail(str))
    ELSE /\ str # <<>>
         /\ Lower(Head(pat)) = Lower(Head(str))
         /\ Like(Tail(pat), Tail(str))

\* The WHERE clause: none for an empty search, else name LIKE %search%.
Matches(row, search) ==
    search = <<>> \/ Like(<<"%">> \o search \o <<"%">>, row.name)

\* Text comparison under the BINARY collation.
RECURSIVE StrLeq(_, _)
StrLeq(a, b) ==
    IF a = <<>> THEN TRUE
    ELSE IF b = <<>> THEN FALSE
    ELSE IF Ord(Head(a)) # Ord(Head(b)) THEN Ord(Head(a)) < Ord(Head(b))
    ELSE StrLeq(Tail(a), Tail(b))

\* The parsed page and limit: defaults when either int() raises ValueError.
PageLimit(pageRaw, limitRaw) ==
    LET p == IntArg(pageRaw, DefaultPage)
        l == IntArg(limitRaw, DefaultLimit)
    IN IF p.ok /\ l.ok THEN <<p.val, l.val>> ELSE <<DefaultPage, DefaultLimit>>

\* Whether a row order is one the query can produce: any order that satisfies
\* the ORDER BY clause chosen for sort_mode (rows with equal keys come in any
\* order), and the table scan's rowid order when there is no ORDER BY.
OrderOkUnsorted(rows, sort_mode) ==
    \A i, j \in 1..Len(rows) : i < j => rows[i].id < rows[j].id

OrderOk(rows, sort_mode) ==
    \A i, j \in 1..Len(rows) :
        i < j =>
            CASE sort_mode = "low-to-high" -> rows[i].price <= rows[j].price
              [] sort_mode = "high-to-low" -> rows[i].price >= rows[j].price
              [] sort_mode = "a-z" -> StrLeq(rows[i].name, rows[j].name)
              [] sort_mode = "z-a" -> StrLeq(rows[j].name, rows[i].name)
              [] OTHER -> rows[i].id < rows[j].id

\* LIMIT ? OFFSET ?: a negative LIMIT is no limit, a negative OFFSET is 0.
LimitOffsetNoLimit(rows, limit, offset) ==
    LET off == IF offset < 0 THEN 0 ELSE offset
    IN SubSeq(rows, off + 1, Len(rows))

LimitOffset(rows, limit, offset) ==
    LET off == IF offset < 0 THEN 0 ELSE offset
        rest == SubSeq(rows, off + 1, Len(rows))
    IN IF limit < 0 \/ limit >= Len(rest) THEN rest ELSE SubSeq(rest, 1, limit)

\* All orderings of a set of rowids.
RECURSIVE Orderings(_)
Orderings(S) ==
    IF S = {} THEN {<<>>}
    ELSE UNION {{<<x>> \o t : t \in Orderings(S \ {x})} : x \in S}

SeqMap(f, ids) == [i \in 1..Len(ids) |-> f[ids[i]]]

Query(q, sort_mode, pageRaw, limitRaw) ==
    [q |-> q, sort |-> sort_mode, page |-> pageRaw, limit |-> limitRaw]

SortModes == {"", "low-to-high", "high-to-low", "a-z", "z-a"}

\* Raw page and limit arguments: absent, in range, out of range, not an integer.
PagingSamples ==
    {<<Some(<<"2">>), Some(<<"1">>)>>,
     <<Some(<<"2">>), Some(<<" ", "2">>)>>,
     <<None, Some(<<"1">>)>>,
     <<Some(<<"0">>), Some(<<"1">>)>>,
     <<None, Some(<<"-", "1">>)>>,
     <<Some(<<"0">>), Some(<<"-", "1">>)>>,
     <<Some(<<"x">>), Some(<<"1">>)>>,
     <<Some(<<"2">>), Some(<<"2", ".", "5">>)>>}

\* Query strings of /api/products: every sort mode, the paging forms, and
\* searches that match some, all or none of the names.
QuerySamples ==
    {Query(q, m, None, None) : q \in {<<>>, <<" ", "d", "O", " ">>}, m \in SortModes}
    \cup {Query(<<>>, "low-to-high", pg[1], pg[2]) : pg \in PagingSamples}
    \cup {Query(q, "", None, Some(<<"1">>)) : q \in {<<"%">>, <<"x">>, <<"z">>}}

\* The JSON body of a product query, or a 500 when a stored blob does not parse.
ProductsResponse(s, search_query, sort_mode, total_count, page, limit, offset, rows, parsed) ==
    IF \A i \in 1..Len(rows) : parsed[i].ok
    THEN Response("products", s, 200,
             Some([search |-> search_query,
                   sort |-> sort_mode,
                   offset |-> offset,
                   rows |-> [i \in 1..Len(rows) |->
                                [meta_json |-> rows[i].meta_json,
                                 price |-> rows[i].price,
                                 name |-> rows[i].name]]]),
             Some([total |-> total_count,
                   page |-> page,
                   limit |-> limit,
                   count |-> Len(rows),
                   products |-> [i \in 1..Len(rows) |-> parsed[i].val]]))
    ELSE Response("products", s, 500, None, None)

\* GET /api/products.  Each \E over a one-element set names a local of the handler.
get_products_api(s, q, sort_mode, pageRaw, limitRaw) ==
    /\ \E search_query \in {Strip(q)}, pl \in {PageLimit(pageRaw, limitRaw)} :
       \E offset \in {(pl[1] - 1) * pl[2]},
          matching \in {{i \in ProductIds : Matches(products[i], search_query)}} :
       \E ids \in Orderings(matching) :
       \E sorted \in {SeqMap(products, ids)} :
           /\ OrderOk(sorted, sort_mode)
           /\ \E rows \in {LimitOffset(sorted, pl[2], offset)} :
              \E parsed \in {[i \in 1..Len(rows) |-> json_loads(rows[i].meta_json)]} :
                  resp' = ProductsResponse(s, search_query, sort_mode, Cardinality(matching),
                                           pl[1], pl[2], offset, rows, parsed)
    /\ UNCHANGED <<products, orders, nextId, orderRefUnique, now, uploads, session, pending>>

\* UPDATE products SET name=?, price=?, url=?, meta_json=?, detail_json=? WHERE id=?
UpdateProductRow(row, data) ==
    [row EXCEPT !.name = data.name,
                !.price = data.price,
                !.url = data.url,
                !.meta_json = json_dumps(data.meta_json),
                !.detail_json = json_dumps(data.detail_json)]

\* POST /api/admin/product/update
admin_update_product(s, id, data) ==
    /\ IF ~is_admin(s)
       THEN /\ products' = products
            /\ resp' = Unauthorized("admin_update_product", s)
       ELSE IF ~data.complete
       THEN /\ products' = products
            /\ resp' = Response("admin_update_product", s, 500, None, None)
       ELSE /\ products' = [i \in ProductIds |->
                               IF products[i].id = id
                               THEN UpdateProductRow(products[i], data)
                               ELSE products[i]]
            /\ resp' = Response("admin_update_product", s, 200, Some([id |-> id]), None)
    /\ UNCHANGED <<orders, nextId, orderRefUnique, now, uploads, session, pending>>

(***************************************************************************)
(* Login and logout.                                                       *)
(***************************************************************************)
\* auth.verify_id_token: the identity provider's answer for a token, None
\* where it raises.
verify_id_token(tok) ==
    CASE tok = "tok_u1" -> Some([uid |-> "u1", email |-> Some("a@x"), name |-> Some("Ann")])
      [] tok = "tok_u2" -> Some([uid |-> "u2", email |-> None, name |-> None])
      [] OTHER -> None

TokenSamples == {None, Some("bad"), Some("tok_u1"), Some("tok_u2")}

\* POST /api/login
api_login(s, id_token) ==
    /\ IF id_token = None
       THEN /\ session' = session
            /\ resp' = Response("api_login", s, 400, None, None)
       ELSE \E decoded \in {verify_id_token(id_token[1])} :
            IF decoded = None
            THEN /\ session' = session
                 /\ resp' = Response("api_login", s, 401, None, None)
            ELSE /\ session' =
                       [session EXCEPT ![s].user =
                           Some([uid |-> decoded[1].uid,
                                 email |-> decoded[1].email,
                                 name |-> IF decoded[1].name = None
                                          THEN "Collector"
                                          ELSE decoded[1].name[1]])]
                 /\ resp' = Response("api_login", s, 200, None, None)
    /\ UNCHANGED <<products, orders, nextId, orderRefUnique, now, uploads, pending>>

\* session.pop('user', None)
PopAll(sess) == [user |-> None, is_admin |-> FALSE]

PopUser(sess) == [sess EXCEPT !.user = None]

\* GET /logout
logout(s) ==
    /\ session' = [session EXCEPT ![s] = PopUser(session[s])]
    /\ resp' = Response("logout", s, 302, None, None)
    /\ UNCHANGED <<products, orders, nextId, orderRefUnique, now, uploads, pending>>

\* session['user']['uid']
Uid(s) == session[s].user[1].uid

(***************************************************************************)
(* Orders.                                                                 *)
(***************************************************************************)
Refs == {"R1", "R2"}

ItemsA ==
    JArr(<<JObj(<< << <<"s">>, JStr(<<"a", "\"", "\\">>) >>, << <<"q">>, JNum(2) >> >>),
           JNull>>)

ShipA == JObj(<< << <<"z">>, JArr(<<JNum(10)>>) >> >>)

\* A request body of POST /api/orders; a None field is a key left out.
OrderData(ref, status, items, shipping) ==
    [orderRef |-> ref, email |-> "a@x", total |-> "10", status |-> status,
     transactionId |-> None, items |-> items, shipping |-> shipping]

\* The row INSERT INTO orders adds.  request is history, not a column: the body
\* the create request carried.
NewOrderRowObjectDefault(id, uid, data, t) ==
    [id |-> id,
     order_ref |-> data.orderRef,
     uid |-> uid,
     email |-> data.email,
     total_amount |-> data.total,
     status |-> IF data.status = None THEN "pending_payment" ELSE data.status[1],
     created_at |-> t,
     items_json |-> json_dumps(IF data.items = None THEN JObj(<<>>) ELSE data.items[1]),
     shipping_json |->
         json_dumps(IF data.shipping = None THEN JObj(<<>>) ELSE data.shipping[1]),
     transaction_id |-> data.transactionId,
     request |-> data]

NewOrderRow(id, uid, data, t) ==
    [id |-> id,
     order_ref |-> data.orderRef,
     uid |-> uid,
     email |-> data.email,
     total_amount |-> data.total,
     status |-> IF data.status = None THEN "pending_payment" ELSE data.status[1],
     created_at |-> t,
     items_json |-> json_dumps(IF data.items = None THEN JArr(<<>>) ELSE data.items[1]),
     shipping_json |->
         json_dumps(IF data.shipping = None THEN JObj(<<>>) ELSE data.shipping[1]),
     transaction_id |-> data.transactionId,
     request |-> data]

\* POST /api/orders.  The insert fails on a taken order_ref only where the
\* table enforces uniqueness.
create_order(s, data) ==
    /\ IF ~LoggedIn(s)
       THEN /\ UNCHANGED <<orders, nextId>>
            /\ resp' = Unauthorized("create_order", s)
       ELSE IF orderRefUnique /\ \E o \in orders : o.order_ref = data.orderRef
       THEN /\ UNCHANGED <<orders, nextId>>
            /\ resp' = Response("create_order", s, 500, Some(data), None)
       ELSE /\ nextId <= MaxOrderId
            /\ orders' = orders \cup {NewOrderRow(nextId, Uid(s), data, now)}
            /\ nextId' = nextId + 1
            /\ resp' = Response("create_order", s, 200, Some(data),
                                Some([success |-> TRUE, order_ref |-> data.orderRef]))
    /\ UNCHANGED <<products, orderRefUnique, now, uploads, session, pending>>

Unpaid == {"Pending Verification", "pending_payment"}

\* The WHERE clause of the sweep: the caller's own unpaid rows older than 24 hours.
SweepDeletesAnyOwner(o, uid, t) ==
    o.status \in Unpaid /\ o.created_at < t - ExpiryHours

SweepDeletesOnlyNew(o, uid, t) ==
    o.uid = uid /\ o.status = "pending_payment" /\ o.created_at < t - ExpiryHours

SweepDeletes(o, uid, t) ==
    o.uid = uid /\ o.status \in Unpaid /\ o.created_at < t - ExpiryHours

\* json.loads(text) if text else default
LoadsOr(text, default) == IF text # <<>> THEN json_loads(text) ELSE ParseOk(default, <<>>)

\* The list /api/my-orders returns for the fetched rows, or a 500 when a blob
\* does not parse (the sweep is already committed).
MyOrdersResponse(s, uid, t, rows) ==
    LET items == [i \in 1..Len(rows) |-> LoadsOr(rows[i].items_json, JArr(<<>>))]
        shipping == [i \in 1..Len(rows) |-> LoadsOr(rows[i].shipping_json, JObj(<<>>))]
        call == Some([uid |-> uid, at |-> t,
                      fetched |-> [i \in 1..Len(rows) |-> rows[i].id]])
    IN IF \A i \in 1..Len(rows) : items[i].ok /\ shipping[i].ok
       THEN Response("get_my_orders", s, 200, call,
                Some([i \in 1..Len(rows) |->
                         [order_ref |-> rows[i].order_ref,
                          total_amount |-> rows[i].total_amount,
                          status |-> rows[i].status,
                          items |-> items[i].val,
                          shipping |-> shipping[i].val,
                          created_at |-> rows[i].created_at,
                          transaction_id |-> rows[i].transaction_id]]))
       ELSE Response("get_my_orders", s, 500, call, None)

\* ORDER BY created_at DESC: rows of one timestamp come in any order.
NewestFirst(rows) ==
    \A i, j \in 1..Len(rows) : i < j => rows[i].created_at >= rows[j].created_at

\* GET /api/my-orders: the sweep, then the caller's remaining rows.
get_my_orders(s) ==
    /\ IF ~LoggedIn(s)
       THEN /\ orders' = orders
            /\ resp' = Unauthorized("get_my_orders", s)
       ELSE \E uid \in {Uid(s)} :
            \E kept \in {{o \in orders : ~SweepDeletes(o, uid, now)}} :
            \E rows \in Orderings({o \in kept : o.uid = uid}) :
                /\ NewestFirst(rows)
                /\ orders' = kept
                /\ resp' = MyOrdersResponse(s, uid, now, rows)
    /\ UNCHANGED <<products, nextId, orderRefUnique, now, uploads, session, pending>>

\* A request body of POST /api/admin/order/update.
OrderEdit(ref, status, total, tx) ==
    [order_ref |-> ref, status |-> status, total_amount |-> total, transaction_id |-> tx]

OrderEdits ==
    {OrderEdit(ref, "Pending Verification", "20", Some("T1")) : ref \in Refs}
    \cup {OrderEdit(ref, "Shipped", "30", None) : ref \in Refs}

\* UPDATE orders SET status=?, total_amount=?, transaction_id=? (one row)
UpdateOrderRowStatusOnly(o, data) == [o EXCEPT !.status = data.status]

UpdateOrderRow(o, data) ==
    [o EXCEPT !.status = data.status,
              !.total_amount = data.total_amount,
              !.transaction_id = data.transaction_id]

\* ... WHERE order_ref=? (the table after the statement)
ApplyOrderUpdate(rows, data) ==
    {IF o.order_ref = data.order_ref THEN UpdateOrderRow(o, data) ELSE o : o \in rows}

\* POST /api/admin/order/update, the handler as one step.
admin_update_order(s, data) ==
    /\ IF ~is_admin(s)
       THEN /\ orders' = orders
            /\ resp' = Unauthorized("admin_update_order", s)
       ELSE /\ orders' = ApplyOrderUpdate(orders, data)
            /\ resp' = Response("admin_update_order", s, 200, Some(data),
                                Some([success |-> TRUE, overlaps |-> FALSE]))
    /\ UNCHANGED <<products, nextId, orderRefUnique, now, uploads, session, pending>>

\* The same handler in two steps, for requests that overlap: the admin check
\* and the body are read, then the UPDATE statement runs and commits.  overlaps
\* is history: another update of the same order_ref was in flight at the start.
admin_update_order_begin(s, data) ==
    /\ IF ~is_admin(s)
       THEN /\ pending' = pending
            /\ resp' = Unauthorized("admin_update_order", s)
       ELSE /\ Cardinality(pending) < MaxPending
            /\ pending' = pending \cup
                   {[sid |-> s, data |-> data,
                     overlaps |-> \E q \in pending : q.data.order_ref = data.order_ref]}
            /\ resp' = resp
    /\ UNCHANGED <<products, orders, nextId, orderRefUnique, now, uploads, session>>

admin_update_order_commit(r) ==
    /\ r \in pending
    /\ orders' = ApplyOrderUpdate(orders, r.data)
    /\ pending' = pending \ {r}
    /\ resp' = Response("admin_update_order", r.sid, 200, Some(r.data),
                        Some([success |-> TRUE, overlaps |-> r.overlaps]))
    /\ UNCHANGED <<products, nextId, orderRefUnique, now, uploads, session>>

\* except Exception: the UPDATE of a request gives up on a database another
\* request keeps locked, and the handler answers 500.
admin_update_order_locked(r) ==
    /\ r \in pending
    /\ pending \ {r} # {}
    /\ pending' = pending \ {r}
    /\ resp' = Response("admin_update_order", r.sid, 500, Some(r.data), None)
    /\ UNCHANGED <<products, orders, nextId, orderRefUnique, now, uploads, session>>

\* POST /api/admin/order/delete
admin_delete_order(s, order_ref) ==
    /\ IF ~is_admin(s)
       THEN /\ orders' = orders
            /\ resp' = Unauthorized("admin_delete_order", s)
       ELSE /\ orders' = {o \in orders : o.order_ref # order_ref}
            /\ resp' = Response("admin_delete_order", s, 200, Some([order_ref |-> order_ref]),
                                Some([success |-> TRUE]))
    /\ UNCHANGED <<products, nextId, orderRefUnique, now, uploads, session, pending>>

\* try: json.loads(text) except: default
LoadsElse(text, default) == IF json_loads(text).ok THEN json_loads(text).val ELSE default

\* GET /api/admin/get-all
admin_get_all(s) ==
    /\ IF ~is_admin(s)
       THEN resp' = Unauthorized("admin_get_all", s)
       ELSE \E rows \in Orderings(orders) :
            /\ NewestFirst(rows)
            /\ resp' = Response("admin_get_all", s, 200, None, Some(
                   [products |->
                        [i \in ProductIds |->
                            [products[i] EXCEPT
                                !.meta_json = LoadsElse(products[i].meta_json, JObj(<<>>)),
                                !.detail_json =
                                    LoadsElse(products[i].detail_json, JObj(<<>>))]],
                    orders |->
                        [i \in 1..Len(rows) |->
                            [id |-> rows[i].id,
                             order_ref |-> rows[i].order_ref,
                             uid |-> rows[i].uid,
                             email |-> rows[i].email,
                             total_amount |-> rows[i].total_amount,
                             status |-> rows[i].status,
                             created_at |-> rows[i].created_at,
                             items_json |-> LoadsElse(rows[i].items_json, JArr(<<>>)),
                             shipping_json |-> LoadsElse(rows[i].shipping_json, JObj(<<>>)),
                             transaction_id |-> rows[i].transaction_id]]]))
    /\ UNCHANGED <<products, orders, nextId, orderRefUnique, now, uploads, session, pending>>

(***************************************************************************)
(* Uploads.                                                                *)
(***************************************************************************)
ALLOWED_EXTENSIONS ==
    {<<"p", "n", "g">>, <<"j", "p", "g">>, <<"j", "p", "e", "g">>, <<"p", "d", "f">>}

\* filename.rsplit('.', 1)[1]: the text after the last dot.
RECURSIVE AfterLastDot(_)
AfterLastDot(name) ==
    IF \E i \in 2..Len(name) : name[i] = "." THEN AfterLastDot(Tail(name))
    ELSE IF name # <<>> /\ Head(name) = "." THEN Tail(name)
    ELSE name

LowerAll(str) == [i \in 1..Len(str) |-> Lower(str[i])]

allowed_file(filename) ==
    /\ \E i \in 1..Len(filename) : filename[i] = "."
    /\ LowerAll(AfterLastDot(filename)) \in ALLOWED_EXTENSIONS

\* The file part of an upload: none, an empty name, an allowed and a refused type.
FileSamples ==
    {None, Some(<<>>), Some(<<"a", ".", "b", ".", "P", "N", "G">>),
     Some(<<"a", ".", "e", "x", "e">>)}

\* uuid.uuid4().hex[:8]
RandomSuffixes == {"0a1b2c3d"}

\* int(datetime.now().timestamp()): the application clock, in seconds
UploadSeconds == {1700000000}

\* POST /api/upload.  The stored name is proof_{uid}_{seconds}_{suffix}.{ext};
\* secure_filename leaves such a name as it is.
upload_file(s, file) ==
    /\ IF ~LoggedIn(s)
       THEN /\ uploads' = uploads
            /\ resp' = Unauthorized("upload_file", s)
       ELSE IF file = None \/ file[1] = <<>> \/ ~allowed_file(file[1])
       THEN /\ uploads' = uploads
            /\ resp' = Response("upload_file", s, 400, None, None)
       ELSE \E rnd \in RandomSuffixes, ts \in UploadSeconds :
            \E filename \in {<<"proof", Uid(s), ts, rnd, LowerAll(AfterLastDot(file[1]))>>} :
                /\ Cardinality(uploads \cup {filename}) <= MaxUploads
                /\ uploads' = uploads \cup {filename}
                /\ resp' = Response("upload_file", s, 200, None,
                                    Some([success |-> TRUE, filename |-> filename]))
    /\ UNCHANGED <<products, orders, nextId, orderRefUnique, now, session, pending>>

(***************************************************************************)
(* The clock.                                                              *)
(***************************************************************************)
TickSteps == {12}

Tick ==
    /\ \E d \in TickSteps : now + d <= MaxNow /\ now' = now + d
    /\ UNCHANGED <<products, orders, nextId, orderRefUnique, uploads, session, pending, resp>>

NoResponse == Response("none", "none", 0, None, None)

Init ==
    /\ products = [i \in ProductIds |-> InitProduct(i)]
    /\ orders = {}
    /\ nextId = 1
    /\ orderRefUnique \in BOOLEAN
    /\ now = 0
    /\ uploads = {}
    /\ session = [s \in Sessions |-> [user |-> None, is_admin |-> FALSE]]
    /\ pending = {}
    /\ resp = NoResponse

(***************************************************************************)
(* The whole service: a customer's browser s1 and an admin's browser s2.   *)
(***************************************************************************)
\* An unpaid order with the defaults and a paid one with items and an address.
OrderSamples ==
    {OrderData("R1", None, None, None),
     OrderData("R2", Some("paid"), Some(ItemsA), Some(ShipA))}

Login == \E tok \in {Some("tok_u1"), Some("tok_u2")} : api_login("s1", tok)

Logout == logout("s1")

AdminLogin == admin_login("s2", AdminPassword)

CreateOrder == \E data \in OrderSamples : create_order("s1", data)

ListMine == get_my_orders("s1")

AdminUpdateOrder ==
    \E data \in {e \in OrderEdits : e.order_ref = "R1" /\ e.status \in Unpaid} :
        admin_update_order("s2", data)

AdminDeleteOrder == \E ref \in Refs : admin_delete_order("s2", ref)

AdminUpdateProduct ==
    \E data \in {e \in ProductEdits : e.price = 0} : admin_update_product("s2", 1, data)

Upload == upload_file("s1", Some(<<"a", ".", "b", ".", "P", "N", "G">>))

Next ==
    \/ Login
    \/ Logout
    \/ AdminLogin
    \/ CreateOrder
    \/ ListMine
    \/ AdminUpdateOrder
    \/ AdminDeleteOrder
    \/ AdminUpdateProduct
    \/ Upload
    \/ Tick

Spec == Init /\ [][Next]_vars

(***************************************************************************)
(* The gate alone: two browsers, every guarded endpoint, one request each. *)
(***************************************************************************)
GateOrder == OrderData("R1", None, None, None)

GateOrderEdit == OrderEdit("R1", "Shipped", "30", None)

GateProductEdit == CHOOSE e \in ProductEdits : e.complete /\ e.price = 0

GateLogin ==
    \E s \in Sessions, tok \in {None, Some("bad"), Some("tok_u1")} : api_login(s, tok)

GateLogout == \E s \in Sessions : logout(s)

GateAdminLogin == \E s \in Sessions, pw \in PasswordSamples : admin_login(s, pw)

GateCreateOrder == \E s \in Sessions : create_order(s, GateOrder)

GateListMine == \E s \in Sessions : get_my_orders(s)

GateUpload == \E s \in Sessions, file \in FileSamples : upload_file(s, file)

GateGetAll == \E s \in Sessions : admin_get_all(s)

GateUpdateProduct == \E s \in Sessions : admin_update_product(s, 1, GateProductEdit)

GateUpdateOrder == \E s \in Sessions : admin_update_order(s, GateOrderEdit)

GateDeleteOrder == \E s \in Sessions : admin_delete_order(s, "R1")

NextGate ==
    \/ GateLogin
    \/ GateLogout
    \/ GateAdminLogin
    \/ GateCreateOrder
    \/ GateListMine
    \/ GateUpload
    \/ GateGetAll
    \/ GateUpdateProduct
    \/ GateUpdateOrder
    \/ GateDeleteOrder

SpecGate == Init /\ [][NextGate]_vars

(***************************************************************************)
(* Overlapping admin order updates.                                        *)
(***************************************************************************)
OverlapLogin == api_login("s1", Some("tok_u1"))

OverlapAdminLogin == admin_login("s2", AdminPassword)

OverlapCreateOrder == \E data \in OrderSamples : create_order("s1", data)

OverlapBegin == \E s \in Sessions, data \in OrderEdits : admin_update_order_begin(s, data)

OverlapCommit == \E r \in pending : admin_update_order_commit(r)

OverlapLocked == \E r \in pending : admin_update_order_locked(r)

NextOverlap ==
    \/ OverlapLogin
    \/ OverlapAdminLogin
    \/ OverlapCreateOrder
    \/ OverlapBegin
    \/ OverlapCommit
    \/ OverlapLocked

SpecOverlap == Init /\ [][NextOverlap]_vars

(***************************************************************************)
(* Orders with varied items and shipping, created and listed back.         *)
(***************************************************************************)
BlobSamples ==
    {OrderData("R1", None, None, None),
     OrderData("R2", Some("paid"), Some(ItemsA), Some(ShipA)),
     OrderData("R1", Some("paid"), Some(JNull), Some(JObj(<<>>)))}

BlobLogin == \E tok \in {Some("tok_u1"), Some("tok_u2")} : api_login("s1", tok)

BlobAdminLogin == admin_login("s2", AdminPassword)

BlobCreateOrder == \E data \in BlobSamples : create_order("s1", data)

BlobListMine == get_my_orders("s1")

BlobUpdateOrder == admin_update_order("s2", GateOrderEdit)

NextBlobs ==
    \/ BlobLogin
    \/ BlobAdminLogin
    \/ BlobCreateOrder
    \/ BlobListMine
    \/ BlobUpdateOrder
    \/ Tick

SpecBlobs == Init /\ [][NextBlobs]_vars

(***************************************************************************)
(* The product side alone: one browser session querying and editing.       *)
(***************************************************************************)
ProductQuery ==
    \E r \in QuerySamples : get_products_api("s1", r.q, r.sort, r.page, r.limit)

ProductAdminLogin == \E pw \in PasswordSamples : admin_login("s1", pw)

ProductEdit ==
    \E id \in 0..NumProducts, data \in ProductEdits : admin_update_product("s1", id, data)

NextProducts == ProductQuery \/ ProductAdminLogin \/ ProductEdit

SpecProducts == Init /\ [][NextProducts]_vars

(***************************************************************************)
(* Properties of the order lifecycle, checked under Spec.                  *)
(***************************************************************************)
\* The rowids of the rows a list-mine response was built from.
FetchedIds(r) == {Call(r).fetched[i] : i \in 1..Len(Call(r).fetched)}

Ids(rows) == {o.id : o \in rows}

StaleUnpaid(o, t) == o.status \in Unpaid /\ o.created_at < t - ExpiryHours

\* C2: a list-mine call by u removes every order of u that is unpaid
\* ('pending_payment' or 'Pending Verification') and was created more than 24
\* hours before the database's current time, and that order is not in the
\* call's response; an order of u created less than 24 hours ago stays and is
\* in the response; a response holds only rows the table held before the call,
\* and a removed rowid is never stored again, so no later response has it.
C2_ExpirySweep ==
    [][/\ \A s \in Sessions :
            (LoggedIn(s) /\ resp'.op = "get_my_orders" /\ get_my_orders(s)) =>
                /\ \A o \in orders :
                       (o.uid = Uid(s) /\ StaleUnpaid(o, now)) =>
                           /\ o.id \notin Ids(orders')
                           /\ o.id \notin FetchedIds(resp')
                /\ \A o \in orders :
                       (o.uid = Uid(s) /\ o.created_at > now - ExpiryHours) =>
                           /\ o \in orders'
                           /\ resp'.code = 200
                           /\ o.id \in FetchedIds(resp')
                /\ FetchedIds(resp') \subseteq Ids(orders)
       /\ \A p \in orders' : p.id \in Ids(orders) \/ p.id >= nextId
       /\ \A p \in orders' : p.id < nextId'
      ]_vars

\* C2 witness: the customer's list-mine answered with an order in it after the
\* sweep removed an older one (the admin never logged in, so no admin delete ran).
C2_Witness ==
    /\ resp.op = "get_my_orders"
    /\ resp.code = 200
    /\ Call(resp).at = now
    /\ Len(Call(resp).fetched) >= 1
    /\ ~is_admin("s2")
    /\ \E i \in 1..(nextId - 1) : i \notin Ids(orders)

\* C3: an order row changes only in an admin order update for its order_ref,
\* and leaves the table only in an admin delete for its order_ref or in the
\* sweep of a list-mine call by its owner when it is unpaid and older than 24
\* hours; every other step (list-mine by another user, create, upload, login,
\* logout, product edit, the clock) leaves it as it is.
C3_OrderFrame ==
    [][\A o \in orders :
           o \notin orders' =>
               \/ \E s \in Sessions, d \in OrderEdits :
                      /\ is_admin(s)
                      /\ resp'.op = "admin_update_order"
                      /\ admin_update_order(s, d)
                      /\ d.order_ref = o.order_ref
                      /\ \E p \in orders' :
                             [p EXCEPT !.status = o.status,
                                       !.total_amount = o.total_amount,
                                       !.transaction_id = o.transaction_id] = o
               \/ \E s \in Sessions :
                      /\ is_admin(s)
                      /\ resp'.op = "admin_delete_order"
                      /\ admin_delete_order(s, o.order_ref)
                      /\ o.id \notin Ids(orders')
               \/ \E s \in Sessions :
                      /\ LoggedIn(s)
                      /\ resp'.op = "get_my_orders"
                      /\ get_my_orders(s)
                      /\ Uid(s) = o.uid
                      /\ StaleUnpaid(o, now)
                      /\ o.id \notin Ids(orders')
      ]_vars

\* C3 witness: a list-mine call has just answered while a stale unpaid order
\* of another user is still in the table.
C3_Witness ==
    /\ resp.op = "get_my_orders"
    /\ resp.code = 200
    /\ Call(resp).at = now
    /\ \E o \in orders : o.uid # Call(resp).uid /\ StaleUnpaid(o, now)

\* C5 (as claimed): no two stored orders share an order_ref.
C5_OrderRefUnique ==
    \A o1, o2 \in orders : o1.order_ref = o2.order_ref => o1.id = o2.id

(***************************************************************************)
(* Properties of the product query, checked under SpecProducts.            *)
(***************************************************************************)
ProductsAnswered == resp.op = "products" /\ resp.code = 200

\* C6: when the page used is >= 1 and the limit used is > 0, the response has
\* count <= limit and count <= total, count being the number of products
\* returned and total the number of rows of the table that match the search.
C6_CountBounded ==
    (ProductsAnswered /\ Body(resp).page >= 1 /\ Body(resp).limit > 0) =>
        /\ Body(resp).count = Len(Body(resp).products)
        /\ Body(resp).total =
               Cardinality({i \in ProductIds : Matches(products[i], Call(resp).search)})
        /\ Body(resp).count <= Body(resp).limit
        /\ Body(resp).count <= Body(resp).total

\* C6 witness: page 2 of pages of one product, out of three that match.
C6_Witness ==
    /\ ProductsAnswered
    /\ Body(resp).page = 2
    /\ Body(resp).limit = 1
    /\ Body(resp).count = 1
    /\ Body(resp).total = NumProducts

\* C7 (as claimed): the page and limit a product query uses and echoes are
\* in range, page >= 1 and limit > 0.
C7_PageLimitInRange ==
    ProductsAnswered => Body(resp).page >= 1 /\ Body(resp).limit > 0

\* C8: with sort=low-to-high the rows behind the returned page, in response
\* order, have non-decreasing prices, for every table the admin edits reach.
C8_LowToHighSorted ==
    (ProductsAnswered /\ Call(resp).sort = "low-to-high") =>
        /\ Len(Body(resp).products) = Len(Call(resp).rows)
        /\ \A i, j \in 1..Len(Call(resp).rows) :
               i < j => Call(resp).rows[i].price <= Call(resp).rows[j].price

\* C8 witness: a sorted page of an edited table whose rows come in another
\* order than the table's.
C8_Witness ==
    /\ ProductsAnswered
    /\ Call(resp).sort = "low-to-high"
    /\ products # [i \in ProductIds |-> InitProduct(i)]
    /\ Len(Call(resp).rows) = NumProducts
    /\ Call(resp).rows[1].price < Call(resp).rows[NumProducts].price
    /\ products[1].price > products[NumProducts].price

(***************************************************************************)
(* Properties of the gate, checked under SpecGate.                         *)
(***************************************************************************)
UserCall(s) ==
    \/ resp'.op = "get_my_orders" /\ get_my_orders(s)
    \/ resp'.op = "create_order" /\ create_order(s, GateOrder)
    \/ resp'.op = "upload_file" /\ \E file \in FileSamples : upload_file(s, file)

AdminCall(s) ==
    \/ resp'.op = "admin_get_all" /\ admin_get_all(s)
    \/ resp'.op = "admin_update_product" /\ admin_update_product(s, 1, GateProductEdit)
    \/ resp'.op = "admin_update_order" /\ admin_update_order(s, GateOrderEdit)
    \/ resp'.op = "admin_delete_order" /\ admin_delete_order(s, "R1")

\* C1: a call to my-orders, create-order or upload from a session with no
\* identity, and a call to an admin endpoint (get-all, product update, order
\* update, order delete) from a session without the admin flag, answers 401
\* and leaves the products, the orders and the upload directory as they were.
C1_Unauthorized ==
    [][\A s \in Sessions :
          /\ (session[s].user = None /\ UserCall(s)) =>
                 /\ resp'.code = 401
                 /\ UNCHANGED <<products, orders, uploads>>
          /\ (session[s].is_admin # TRUE /\ AdminCall(s)) =>
                 /\ resp'.code = 401
                 /\ UNCHANGED <<products, orders, uploads>>
      ]_vars

\* C1 witness: a logged-in customer without the admin flag was refused the
\* delete of a stored order, which is still there.
C1_Witness ==
    /\ resp.op = "admin_delete_order"
    /\ resp.code = 401
    /\ session[resp.sid].user # None
    /\ session[resp.sid].is_admin # TRUE
    /\ \E o \in orders : o.order_ref = "R1"

\* C10: logout removes the identity of its session and changes nothing else;
\* login, failed or not, changes no admin flag, and a failed one changes
\* nothing; admin-login never changes an identity, a failed one changes
\* nothing and a correct one sets the flag; a flag once set stays set; and an
\* admin endpoint is granted exactly to a session whose flag is set.
C10_FlagIndependent ==
    [][\A s \in Sessions :
          /\ (resp'.op = "logout" /\ logout(s)) =>
                 /\ session'[s].user = None
                 /\ session'[s].is_admin = session[s].is_admin
                 /\ \A t \in Sessions \ {s} : session'[t] = session[t]
          /\ (resp'.op = "api_login" /\ \E tok \in TokenSamples : api_login(s, tok)) =>
                 /\ \A t \in Sessions : session'[t].is_admin = session[t].is_admin
                 /\ resp'.code # 200 => session' = session
          /\ (resp'.op = "admin_login" /\ \E pw \in PasswordSamples : admin_login(s, pw)) =>
                 /\ \A t \in Sessions : session'[t].user = session[t].user
                 /\ IF resp'.code = 200
                    THEN session'[s].is_admin = TRUE
                    ELSE session' = session
          /\ session[s].is_admin = TRUE => session'[s].is_admin = TRUE
          /\ AdminCall(s) => (resp'.code # 401 <=> session[s].is_admin = TRUE)
      ]_vars

\* C10 witness: a browser that holds the admin flag logged out and kept the
\* flag, while another one holds an identity and no flag.
C10_Witness ==
    /\ resp.op = "logout"
    /\ session[resp.sid].user = None
    /\ session[resp.sid].is_admin = TRUE
    /\ \E t \in Sessions : session[t].user # None /\ session[t].is_admin # TRUE

(***************************************************************************)
(* The blob round trip, checked under SpecBlobs.                           *)
(***************************************************************************)
Supplied(field, default) == IF field = None THEN default ELSE field[1]

\* C4: a created order stores the request it came from under the caller's uid;
\* a list-mine call of u answers 200 and returns every stored order of u
\* created at most 24 hours before, with items and shipping equal to the values
\* the create request carried ([] and {} when it left them out), and fetches
\* no order of another user.
C4_BlobRoundTrip ==
    [][/\ (resp'.op = "create_order" /\ resp'.code = 200 /\ resp' # resp) =>
              \E p \in orders' \ orders :
                  /\ p.request = Call(resp')
                  /\ p.order_ref = Call(resp').orderRef
                  /\ p.uid = Uid(resp'.sid)
       /\ \A p \in orders' : \A o \in orders : p.id = o.id => p.request = o.request
       /\ \A s \in Sessions :
              (LoggedIn(s) /\ resp'.op = "get_my_orders" /\ get_my_orders(s)) =>
                  /\ \A o \in orders :
                         (o.uid = Uid(s) /\ o.created_at >= now - ExpiryHours) =>
                             /\ resp'.code = 200
                             /\ \E k \in 1..Len(Call(resp').fetched) :
                                    /\ Call(resp').fetched[k] = o.id
                                    /\ Body(resp')[k].order_ref = o.order_ref
                                    /\ Body(resp')[k].items =
                                           Supplied(o.request.items, JArr(<<>>))
                                    /\ Body(resp')[k].shipping =
                                           Supplied(o.request.shipping, JObj(<<>>))
                  /\ \A o \in orders : o.uid # Uid(s) => o.id \notin FetchedIds(resp')
      ]_vars

\* C4 witness: a list-mine answer carrying the nested items and the address of
\* an order, while the table also holds another user's order made with neither.
C4_Witness ==
    /\ resp.op = "get_my_orders"
    /\ resp.code = 200
    /\ \E k \in 1..Len(Call(resp).fetched) :
           Body(resp)[k].items = ItemsA /\ Body(resp)[k].shipping = ShipA
    /\ \E o \in orders : o.uid # Call(resp).uid /\ o.request.items = None

(***************************************************************************)
(* Overlapping order updates, checked under SpecOverlap.                   *)
(***************************************************************************)
Triple(o) == <<o.status, o.total_amount, o.transaction_id>>

CreationTriple(o) ==
    <<Supplied(o.request.status, "pending_payment"), o.request.total,
      o.request.transactionId>>

OtherColumns(o) == [o EXCEPT !.status = "", !.total_amount = "", !.transaction_id = None]

Commits(r) ==
    resp'.op = "admin_update_order" /\ resp'.code = 200 /\ admin_update_order_commit(r)

\* C9: with updates in flight in any interleaving, the UPDATE of one of them
\* gives every order of its order_ref the whole triple (status, total_amount,
\* transaction_id) of that request and changes no other column and no order
\* of another order_ref; no other step changes a stored order; so the triple
\* of an order is always the one it was created with or the whole triple of
\* one update, the last committed, never fields of two.
C9_LastWriterWins ==
    [][/\ \A r \in pending :
              Commits(r) =>
                  /\ Ids(orders') = Ids(orders)
                  /\ \A o \in orders :
                         IF o.order_ref = r.data.order_ref
                         THEN \E p \in orders' :
                                  /\ p.id = o.id
                                  /\ Triple(p) = Triple(r.data)
                                  /\ OtherColumns(p) = OtherColumns(o)
                         ELSE o \in orders'
       /\ (\A r \in pending : ~Commits(r)) => orders \subseteq orders'
       /\ \A p \in orders' :
              \/ Triple(p) = CreationTriple(p)
              \/ \E data \in OrderEdits :
                     data.order_ref = p.order_ref /\ Triple(p) = Triple(data)
      ]_vars

\* C9 witness: an update that started while another update of the same order
\* was in flight committed last, both are over, and the order holds its triple.
C9_Witness ==
    /\ resp.op = "admin_update_order"
    /\ resp.code = 200
    /\ Body(resp).overlaps
    /\ pending = {}
    /\ \E o \in orders :
           /\ o.order_ref = Call(resp).order_ref
           /\ Triple(o) = Triple(Call(resp))
           /\ Triple(o) # CreationTriple(o)

====
